---------------------------- MODULE Spec2Model ----------------------------
(***************************************************************************)
(* AWS Signature Version 4 signing for the Bedrock adapter                 *)
(* (src/adapter/adapters/bedrock/aws_auth.rs) and the redacting Debug of   *)
(* AuthData (src/resolver/auth_data.rs).                                   *)
(*                                                                         *)
(* Text.  A Rust String / &str / byte vector is a sequence of atoms, each  *)
(* atom a TLA+ string.  A one-character atom is that ASCII byte.  In the   *)
(* runs of sign_request the bytes of a digest are not computed: a digest   *)
(* is written as the text it was computed from, enclosed between two       *)
(* multi-character atoms that name the function (see sha256_hex,           *)
(* hmac_sha256, hmac_sha256_hex).  Two digests are then equal exactly when *)
(* they come from the same function applied to the same bytes.  SHA-256    *)
(* itself is computed, on bytes as numbers, in a run of its own.  In Debug *)
(* output a multi-character atom is a fixed piece of the format.           *)
(*                                                                         *)
(* Numbers.  TLC's integers are 32-bit, so an instant is kept as the pair  *)
(* unix_secs / 86400 and unix_secs % 86400 wherever it may pass 2^31.      *)
(***************************************************************************)
EXTENDS Integers, Sequences, FiniteSets, TLC

VARIABLES
    signer,   \* the AwsSigV4Signer: its credentials and service name
    clock,    \* SystemTime::now(), in seconds relative to UNIX_EPOCH
    calls,    \* per thread: the sign_request call in progress, with its locals
    env,      \* the process environment read by AwsCredentials::from_env
    loaded,   \* what AwsCredentials::from_env returned
    pc,       \* position of the single-function runs (from_env, Debug, ...)
    arg,      \* input of the function under a single-function run
    ret       \* its output

vars == <<signer, clock, calls, env, loaded, pc, arg, ret>>

---------------------------------------------------------------------------
(* Bytes and text                                                          *)

\* The printable ASCII bytes 32..126, in byte order (three of them by name).
Printable ==
    <<" ", "!", "QUOTE", "#", "$", "%", "&", "'", "(", ")", "*", "+", ",", "-",
      ".", "/", "0", "1", "2", "3", "4", "5", "6", "7", "8", "9", ":", ";",
      "<", "=", ">", "?", "@", "A", "B", "C", "D", "E", "F", "G", "H", "I",
      "J", "K", "L", "M", "N", "O", "P", "Q", "R", "S", "T", "U", "V", "W",
      "X", "Y", "Z", "[", "BACKSLASH", "]", "^", "_", "BACKTICK", "a", "b", "c", "d", "e",
      "f", "g", "h", "i", "j", "k", "l", "m", "n", "o", "p", "q", "r", "s",
      "t", "u", "v", "w", "x", "y", "z", "{", "|", "}", "~">>

\* The byte value of an atom: the printable bytes, tab and line feed, and by
\* name NUL, DEL and the two bytes of U+00E9 in UTF-8.
OrdTable ==
    [c \in {Printable[i] : i \in 1..Len(Printable)}
              \cup {"\t", "\n", "0x00", "0x7F", "0xC3", "0xA9"} |->
        IF c = "\t" THEN 9
        ELSE IF c = "\n" THEN 10
        ELSE IF c = "0x00" THEN 0
        ELSE IF c = "0x7F" THEN 127
        ELSE IF c = "0xC3" THEN 195
        ELSE IF c = "0xA9" THEN 169
        ELSE 31 + (CHOOSE i \in 1..Len(Printable) : Printable[i] = c)]

Ord(c) == OrdTable[c]

Chr(n) == Printable[n - 31]

IsByte(c) == c \in DOMAIN OrdTable

Min(a, b) == IF a < b THEN a ELSE b

\* Ord on strings: Rust's byte-wise lexicographic order of str.
StrLess(a, b) ==
    \/ \E i \in 1..Min(Len(a), Len(b)) :
          /\ \A j \in 1..(i - 1) : a[j] = b[j]
          /\ a[i] # b[i]
          /\ Ord(a[i]) < Ord(b[i])
    \/ /\ Len(a) < Len(b)
       /\ \A j \in 1..Len(a) : a[j] = b[j]

\* str::to_lowercase on ASCII text.
to_lowercase(s) ==
    [i \in 1..Len(s) |->
        IF IsByte(s[i]) /\ Ord(s[i]) >= 65 /\ Ord(s[i]) <= 90
        THEN Chr(Ord(s[i]) + 32)
        ELSE s[i]]

IsWhite(c) == c \in {" ", "\t", "\n"}

RECURSIVE trim_start(_)
trim_start(s) ==
    IF s # <<>> /\ IsWhite(Head(s)) THEN trim_start(Tail(s)) ELSE s

RECURSIVE trim_end(_)
trim_end(s) ==
    IF s # <<>> /\ IsWhite(s[Len(s)])
    THEN trim_end(SubSeq(s, 1, Len(s) - 1))
    ELSE s

\* str::trim
trim(s) == trim_end(trim_start(s))

\* str::find of one character: the first index, 0 when absent.
Find(s, c) ==
    IF \E i \in 1..Len(s) : s[i] = c
    THEN CHOOSE i \in 1..Len(s) : s[i] = c /\ \A j \in 1..(i - 1) : s[j] # c
    ELSE 0

StartsWith(s, p) == Len(s) >= Len(p) /\ SubSeq(s, 1, Len(p)) = p

\* str::strip_prefix(p).unwrap_or(s)
StripPrefix(s, p) ==
    IF StartsWith(s, p) THEN SubSeq(s, Len(p) + 1, Len(s)) ELSE s

\* str::split on one character: always at least one piece.
RECURSIVE Split(_, _)
Split(s, c) ==
    LET i == Find(s, c) IN
    IF i = 0 THEN <<s>>
    ELSE <<SubSeq(s, 1, i - 1)>> \o Split(SubSeq(s, i + 1, Len(s)), c)

\* [String]::join(sep)
RECURSIVE Join(_, _)
Join(parts, sep) ==
    IF parts = <<>> THEN <<>>
    ELSE IF Len(parts) = 1 THEN parts[1]
    ELSE parts[1] \o sep \o Join(Tail(parts), sep)

RECURSIVE Concat(_)
Concat(parts) ==
    IF parts = <<>> THEN <<>> ELSE Head(parts) \o Concat(Tail(parts))

---------------------------------------------------------------------------
(* Encoding helpers                                                        *)

HexUpper == <<"0", "1", "2", "3", "4", "5", "6", "7", "8", "9",
              "A", "B", "C", "D", "E", "F">>

IsUnreserved(c) ==
    \/ Ord(c) >= 65 /\ Ord(c) <= 90
    \/ Ord(c) >= 97 /\ Ord(c) <= 122
    \/ Ord(c) >= 48 /\ Ord(c) <= 57
    \/ c \in {"-", "_", ".", "~"}

\* An encoder that never escapes '/'.
uri_encode_byte_slash_kept(c, encode_slash) ==
    IF IsUnreserved(c) THEN <<c>>
    ELSE IF c = "/" THEN <<"/">>
    ELSE <<"%", HexUpper[(Ord(c) \div 16) + 1], HexUpper[(Ord(c) % 16) + 1]>>

\* One iteration of the loop of uri_encode: the text pushed for one byte.
uri_encode_byte(c, encode_slash) ==
    IF IsUnreserved(c) THEN <<c>>
    ELSE IF c = "/" /\ ~encode_slash THEN <<"/">>
    ELSE <<"%", HexUpper[(Ord(c) \div 16) + 1], HexUpper[(Ord(c) % 16) + 1]>>

uri_encode(s, encode_slash) ==
    Concat([i \in 1..Len(s) |-> uri_encode_byte(s[i], encode_slash)])

\* The decimal digits of n >= 0, as format!("{}", n) writes them.
RECURSIVE Decimal(_)
Decimal(n) ==
    IF n < 10 THEN <<Chr(48 + n)>>
    ELSE Decimal(n \div 10) \o <<Chr(48 + (n % 10))>>

\* format!("{:0w$}", n): zero-padded to at least w digits, never cut.
RECURSIVE ZeroPad(_, _)
ZeroPad(digits, w) ==
    IF Len(digits) >= w THEN digits ELSE ZeroPad(<<"0">> \o digits, w)

\* A leap rule without the century exceptions.
is_leap_year_every_fourth(year) == year % 4 = 0

is_leap_year(year) ==
    (year % 4 = 0 /\ year % 100 # 0) \/ (year % 400 = 0)

days_in_months(year) ==
    IF is_leap_year(year)
    THEN <<31, 29, 31, 30, 31, 30, 31, 31, 30, 31, 30, 31>>
    ELSE <<31, 28, 31, 30, 31, 30, 31, 31, 30, 31, 30, 31>>

\* The state of the "find year" loop of days_to_ymd.
YearLoop(year, remaining_days) ==
    [year |-> year, remaining_days |-> remaining_days]

days_in_year(year) == IF is_leap_year(year) THEN 366 ELSE 365

\* Its break condition.
year_loop_break(s) == s.remaining_days < days_in_year(s.year)

\* One iteration of it.
year_loop_step(s) ==
    YearLoop(s.year + 1, s.remaining_days - days_in_year(s.year))

\* The loop run to its break.
RECURSIVE FindYear(_)
FindYear(s) == IF year_loop_break(s) THEN s ELSE FindYear(year_loop_step(s))

\* The "find month" loop of days_to_ymd: <<month, remaining_days>> at its end.
RECURSIVE FindMonth(_, _, _)
FindMonth(remaining_days, month, table) ==
    IF month > 12 \/ remaining_days < table[month]
    THEN <<month, remaining_days>>
    ELSE FindMonth(remaining_days - table[month], month + 1, table)

\* days_to_ymd from the end of the year loop on: <<year, month, day>>.
ymd_of_year(s) ==
    LET md == FindMonth(s.remaining_days, 1, days_in_months(s.year))
    IN  <<s.year, md[1], md[2] + 1>>

days_to_ymd(days) == ymd_of_year(FindYear(YearLoop(1970, days)))

\* The format! of format_timestamp.
format_fields(ymd, remaining_secs) ==
    LET hours     == remaining_secs \div 3600
        remaining == remaining_secs % 3600
        minutes   == remaining \div 60
        seconds   == remaining % 60
    IN  ZeroPad(Decimal(ymd[1]), 4) \o ZeroPad(Decimal(ymd[2]), 2)
          \o ZeroPad(Decimal(ymd[3]), 2) \o <<"T">>
          \o ZeroPad(Decimal(hours), 2) \o ZeroPad(Decimal(minutes), 2)
          \o ZeroPad(Decimal(seconds), 2) \o <<"Z">>

format_timestamp(unix_secs) ==
    format_fields(days_to_ymd(unix_secs \div 86400), unix_secs % 86400)

---------------------------------------------------------------------------
(* URL parsing                                                             *)

\* A parser that rejects a URL without a scheme.
parse_url_strict(url0) ==
    LET https == <<"h", "t", "t", "p", "s", ":", "/", "/">>
        http  == <<"h", "t", "t", "p", ":", "/", "/">>
        url   == IF StartsWith(url0, https) THEN StripPrefix(url0, https)
                 ELSE StripPrefix(url0, http)
        qi    == Find(url, "?")
        host_and_path == IF qi # 0 THEN SubSeq(url, 1, qi - 1) ELSE url
        si    == Find(host_and_path, "/")
    IN  [ok    |-> StartsWith(url0, https) \/ StartsWith(url0, http),
         host  |-> IF si # 0 THEN SubSeq(host_and_path, 1, si - 1)
                   ELSE host_and_path,
         path  |-> IF si # 0 THEN SubSeq(host_and_path, si, Len(host_and_path))
                   ELSE <<"/">>,
         hasQuery |-> qi # 0,
         query |-> IF qi # 0 THEN SubSeq(url, qi + 1, Len(url)) ELSE <<>>]

parse_url(url0) ==
    LET https == <<"h", "t", "t", "p", "s", ":", "/", "/">>
        http  == <<"h", "t", "t", "p", ":", "/", "/">>
        url   == IF StartsWith(url0, https) THEN StripPrefix(url0, https)
                 ELSE StripPrefix(url0, http)
        qi    == Find(url, "?")
        host_and_path == IF qi # 0 THEN SubSeq(url, 1, qi - 1) ELSE url
        si    == Find(host_and_path, "/")
    IN  [ok    |-> TRUE,
         host  |-> IF si # 0 THEN SubSeq(host_and_path, 1, si - 1)
                   ELSE host_and_path,
         path  |-> IF si # 0 THEN SubSeq(host_and_path, si, Len(host_and_path))
                   ELSE <<"/">>,
         hasQuery |-> qi # 0,
         query |-> IF qi # 0 THEN SubSeq(url, qi + 1, Len(url)) ELSE <<>>]

---------------------------------------------------------------------------
(* Digests, kept as terms over the text they are computed from             *)

sha256_hex(data) == <<"<sha256_hex>">> \o data \o <<"</sha256_hex>">>

hmac_sha256(key, data) ==
    <<"<hmac_sha256>">> \o key \o <<"<data>">> \o data \o <<"</hmac_sha256>">>

hmac_sha256_hex(key, data) ==
    <<"<hmac_sha256_hex>">> \o key \o <<"<data>">> \o data
        \o <<"</hmac_sha256_hex>">>

---------------------------------------------------------------------------
(* BTreeMap<String, String>: a function from its keys to their values;     *)
(* iteration is in ascending byte order of the keys.                       *)

EmptyMap == [k \in {} |-> <<>>]

\* BTreeMap::insert: the key's earlier value, if any, is replaced.
Insert(m, key, value) ==
    [k \in (DOMAIN m) \cup {key} |-> IF k = key THEN value ELSE m[k]]

\* BTreeMap::keys / iter: the keys in ascending order.
RECURSIVE SortedKeys(_)
SortedKeys(S) ==
    IF S = {} THEN <<>>
    ELSE LET least == CHOOSE x \in S : \A y \in S \ {x} : StrLess(x, y)
         IN  <<least>> \o SortedKeys(S \ {least})

Keys(m) == SortedKeys(DOMAIN m)

\* Ord on (String, String).
PairLess(p, q) ==
    StrLess(p[1], q[1]) \/ (p[1] = q[1] /\ StrLess(p[2], q[2]))

RECURSIVE InsertSorted(_, _)
InsertSorted(sorted, p) ==
    IF sorted = <<>> THEN <<p>>
    ELSE IF PairLess(p, Head(sorted)) THEN <<p>> \o sorted
    ELSE <<Head(sorted)>> \o InsertSorted(Tail(sorted), p)

\* Vec<(String, String)>::sort
RECURSIVE SortPairs(_)
SortPairs(params) ==
    IF params = <<>> THEN <<>>
    ELSE InsertSorted(SortPairs(Tail(params)), Head(params))

---------------------------------------------------------------------------
(* The canonical request                                                   *)

Eq == <<"=">>
Amp == <<"&">>
Semi == <<";">>
Colon == <<":">>
Slash == <<"/">>
LF == <<"\n">>

\* The closure given to filter_map: splitn(2, '='), both halves encoded.
query_param(p) ==
    LET i     == Find(p, "=")
        key   == IF i = 0 THEN p ELSE SubSeq(p, 1, i - 1)
        value == IF i = 0 THEN <<>> ELSE SubSeq(p, i + 1, Len(p))
    IN  <<uri_encode(key, TRUE), uri_encode(value, TRUE)>>

\* The closure given to parsed_url.query.map: the canonical query of Some(q).
canonical_query(q) ==
    LET pieces == Split(q, "&")
        params == SortPairs([i \in 1..Len(pieces) |-> query_param(pieces[i])])
    IN  Join([i \in 1..Len(params) |-> params[i][1] \o Eq \o params[i][2]], Amp)

\* One line of the canonical headers block.
canonical_header_line(k, v) == to_lowercase(k) \o Colon \o trim(v) \o LF

\* The lines of the canonical headers block, in the order they are written.
canonical_header_lines(headers) ==
    LET ks == Keys(headers) IN
    [i \in 1..Len(ks) |-> canonical_header_line(ks[i], headers[ks[i]])]

canonical_headers(headers) == Concat(canonical_header_lines(headers))

\* The names of the signed-headers line, in the order they are written.
canonical_signed_names(headers) ==
    LET ks == Keys(headers) IN [i \in 1..Len(ks) |-> to_lowercase(ks[i])]

canonical_signed_headers(headers) == Join(canonical_signed_names(headers), Semi)

create_canonical_request(method, parsed_url, headers, payload_hash) ==
    LET canonical_uri == IF parsed_url.path = <<>> THEN Slash
                         ELSE uri_encode(parsed_url.path, FALSE)
        query         == IF parsed_url.hasQuery
                         THEN canonical_query(parsed_url.query)
                         ELSE <<>>
    IN  method \o LF \o canonical_uri \o LF \o query \o LF
          \o canonical_headers(headers) \o LF
          \o canonical_signed_headers(headers) \o LF \o payload_hash

\* &str -> bytes for the fixed texts of the protocol.
Aws4 == <<"A", "W", "S", "4">>
Aws4Request == <<"a", "w", "s", "4", "_", "r", "e", "q", "u", "e", "s", "t">>
Algorithm == <<"A", "W", "S", "4", "-", "H", "M", "A", "C", "-",
               "S", "H", "A", "2", "5", "6">>
HostName == <<"h", "o", "s", "t">>
DateName == <<"x", "-", "a", "m", "z", "-", "d", "a", "t", "e">>
TokenName == <<"x", "-", "a", "m", "z", "-", "s", "e", "c", "u", "r", "i", "t", "y",
               "-", "t", "o", "k", "e", "n">>
ContentName == <<"x", "-", "a", "m", "z", "-", "c", "o", "n", "t", "e", "n", "t", "-",
                 "s", "h", "a", "2", "5", "6">>
AuthName == <<"a", "u", "t", "h", "o", "r", "i", "z", "a", "t", "i", "o", "n">>
Bedrock == <<"b", "e", "d", "r", "o", "c", "k">>

derive_signing_key(self, date) ==
    LET k_secret  == Aws4 \o self.credentials.secret_access_key
        k_date    == hmac_sha256(k_secret, date)
        k_region  == hmac_sha256(k_date, self.credentials.region)
        k_service == hmac_sha256(k_region, self.service)
    IN  hmac_sha256(k_service, Aws4Request)

\* AwsSigV4Signer::new
new(credentials) == [credentials |-> credentials, service |-> Bedrock]

\* sign_request, lines 68-85: the header set that is signed.
merge_headers(self, timestamp, parsed_url, headers, payload) ==
    LET h1 == Insert(headers, HostName, parsed_url.host)
        h2 == Insert(h1, DateName, timestamp)
        h3 == IF self.credentials.session_token.some
              THEN Insert(h2, TokenName, self.credentials.session_token.value)
              ELSE h2
    IN  Insert(h3, ContentName, sha256_hex(payload))

credential_scope(self, date) ==
    date \o Slash \o self.credentials.region \o Slash \o self.service
        \o Slash \o Aws4Request

\* The signed_header_names.join(";") of the Authorization header.
authorization_signed_headers(signed_headers) == Join(Keys(signed_headers), Semi)

AuthCredential == <<" ", "C", "r", "e", "d", "e", "n", "t", "i", "a", "l", "=">>
AuthSignedHeaders == <<",", " ", "S", "i", "g", "n", "e", "d", "H", "e", "a", "d",
                       "e", "r", "s", "=">>
AuthSignature == <<",", " ", "S", "i", "g", "n", "a", "t", "u", "r", "e", "=">>

\* sign_request, lines 87-111: the value of the Authorization header.
authorization(self, method, timestamp, parsed_url, signed_headers, payload_hash) ==
    LET date              == SubSeq(timestamp, 1, 8)
        canonical_request == create_canonical_request(method, parsed_url,
                                 signed_headers, payload_hash)
        scope             == credential_scope(self, date)
        string_to_sign    == Algorithm \o LF \o timestamp \o LF \o scope \o LF
                                 \o sha256_hex(canonical_request)
        signing_key       == derive_signing_key(self, date)
        signature         == hmac_sha256_hex(signing_key, string_to_sign)
    IN  Algorithm \o AuthCredential \o self.credentials.access_key_id \o Slash
          \o scope \o AuthSignedHeaders
          \o authorization_signed_headers(signed_headers)
          \o AuthSignature \o signature

\* Result<BTreeMap<String, String>>
NoResult == [ok |-> FALSE, headers |-> EmptyMap, error |-> ""]

Ok(headers) == [ok |-> TRUE, headers |-> headers, error |-> ""]

Err(message) == [ok |-> FALSE, headers |-> EmptyMap, error |-> message]

\* sign_request as one sequential computation from the instant it read.
sign_request(self, now, method, url, headers, payload) ==
    IF now < 0 THEN Err("System time error")
    ELSE LET timestamp  == format_timestamp(now)
             parsed_url == parse_url(url)
         IN  IF ~parsed_url.ok THEN Err("url")
             ELSE LET signed_headers ==
                          merge_headers(self, timestamp, parsed_url, headers,
                                        payload)
                  IN  Ok(Insert(signed_headers, AuthName,
                         authorization(self, method, timestamp, parsed_url,
                             signed_headers, sha256_hex(payload))))

---------------------------------------------------------------------------
(* AwsCredentials::from_env                                                *)

\* Option<String>
None == [some |-> FALSE, value |-> <<>>]

Some(v) == [some |-> TRUE, value |-> v]

NoEnv == <<>>

Unset == [state |-> "unset", value |-> <<>>]

NotUnicode == [state |-> "not_unicode", value |-> <<>>]

Set(v) == [state |-> "set", value |-> v]

EnvNames == {"AWS_ACCESS_KEY_ID", "AWS_SECRET_ACCESS_KEY", "AWS_SESSION_TOKEN",
             "AWS_REGION"}

\* Each variable is unset, holds bytes that are not valid Unicode, is set to
\* the empty string, or is set to a value.
SampleEnvs ==
    [EnvNames -> {Unset, NotUnicode, Set(<<>>), Set(<<"v", "1">>)}]

\* std::env::var: Err(NotPresent), Err(NotUnicode) or Ok(value).
env_var(e, name) ==
    IF e[name].state = "set" THEN [ok |-> TRUE, value |-> e[name].value]
    ELSE [ok |-> FALSE, value |-> <<>>]

UsEast1 == <<"u", "s", "-", "e", "a", "s", "t", "-", "1">>

NoCredentials ==
    [access_key_id |-> <<>>, secret_access_key |-> <<>>,
     session_token |-> None, region |-> <<>>]

NotLoaded == [ok |-> FALSE, credentials |-> NoCredentials, error |-> ""]

\* A loader that takes a missing secret key as the empty string.
from_env_secret_defaulted(e) ==
    LET access_key_id     == env_var(e, "AWS_ACCESS_KEY_ID")
        secret_access_key == env_var(e, "AWS_SECRET_ACCESS_KEY")
        session_token     == env_var(e, "AWS_SESSION_TOKEN")
        region            == env_var(e, "AWS_REGION")
    IN  IF ~access_key_id.ok
        THEN [ok |-> FALSE, credentials |-> NoCredentials,
              error |-> "AWS_ACCESS_KEY_ID environment variable not set"]
        ELSE [ok |-> TRUE,
              credentials |->
                 [access_key_id     |-> access_key_id.value,
                  secret_access_key |-> secret_access_key.value,
                  session_token     |-> IF session_token.ok
                                        THEN Some(session_token.value)
                                        ELSE None,
                  region            |-> IF region.ok THEN region.value
                                        ELSE UsEast1],
              error |-> ""]

from_env(e) ==
    LET access_key_id     == env_var(e, "AWS_ACCESS_KEY_ID")
        secret_access_key == env_var(e, "AWS_SECRET_ACCESS_KEY")
        session_token     == env_var(e, "AWS_SESSION_TOKEN")
        region            == env_var(e, "AWS_REGION")
    IN  IF ~access_key_id.ok
        THEN [ok |-> FALSE, credentials |-> NoCredentials,
              error |-> "AWS_ACCESS_KEY_ID environment variable not set"]
        ELSE IF ~secret_access_key.ok
        THEN [ok |-> FALSE, credentials |-> NoCredentials,
              error |-> "AWS_SECRET_ACCESS_KEY environment variable not set"]
        ELSE [ok |-> TRUE,
              credentials |->
                 [access_key_id     |-> access_key_id.value,
                  secret_access_key |-> secret_access_key.value,
                  session_token     |-> IF session_token.ok
                                        THEN Some(session_token.value)
                                        ELSE None,
                  region            |-> IF region.ok THEN region.value
                                        ELSE UsEast1],
              error |-> ""]

NoSigner == new(NoCredentials)

---------------------------------------------------------------------------
(* Inputs of the model                                                     *)

\* Concurrent callers of one signer.
NumThreads == 2

Threads == 1..NumThreads

\* Instants the system clock may show: one second before the epoch, the
\* epoch, and 2024-01-15T12:30:45Z with the seconds that follow it.
MaxTick == 0

ClockValues == {-1, 0} \cup {1705321845 + i : i \in 0..MaxTick}

SampleCredentials ==
    {[access_key_id     |-> <<"A", "K">>,
      secret_access_key |-> <<"s", "k">>,
      session_token     |-> tok,
      region            |-> <<"r", "1">>] : tok \in {None, Some(<<"t", "k">>)}}

Post == <<"P", "O", "S", "T">>

Request(method, url, headers, payload) ==
    [method |-> method, url |-> url, headers |-> headers, payload |-> payload]

\* A well-formed URL, one with a query and no path, and malformed ones.
SampleUrls ==
    {<<"h", "t", "t", "p", "s", ":", "/", "/", "h", ".", "a", "/", "m", " ", "1">>,
     <<"h", "t", "t", "p", ":", "/", "/", "h", "?", "b", "=", "2", "&", "a">>,
     <<"h", "/", "/", "?", "?">>,
     <<":", "/", "/">>,
     <<>>}

\* Header names a caller may pass, in the letter case the caller chose.
SampleNames ==
    {<<"H", "o", "s", "t">>,
     HostName,
     <<"X", "-", "A", "m", "z", "-", "D", "a", "t", "e">>,
     <<"Z">>,
     TokenName,
     AuthName}

SampleValues == {<<" ", "v", "\t">>, <<"w">>}

\* The header maps with at most MaxExtraHeaders entries.
MaxExtraHeaders == 2

SampleHeaders ==
    UNION {[K -> SampleValues] :
              K \in {X \in SUBSET SampleNames : Cardinality(X) <= MaxExtraHeaders}}

SamplePayloads == {<<>>, <<"{", "}">>}

\* Every request a single caller is given.
AllRequests ==
    {Request(Post, u, h, p) :
        u \in SampleUrls, h \in SampleHeaders, p \in SamplePayloads}

\* The requests of the concurrent callers.
ConcurrentRequests ==
    {Request(Post, <<"h", "/", "m">>, EmptyMap, <<>>),
     Request(<<"G", "E", "T">>, <<"h", "?", "q">>,
             [k \in {<<"H", "o", "s", "t">>} |-> <<"w">>], <<"p">>)}

---------------------------------------------------------------------------
(* sign_request, one call per thread                                       *)

NoRequest == Request(<<>>, <<>>, EmptyMap, <<>>)

NoUrl == [ok |-> FALSE, host |-> <<>>, path |-> <<>>, hasQuery |-> FALSE,
          query |-> <<>>]

IdleCall ==
    [pc             |-> "idle",
     req            |-> NoRequest,
     reads          |-> 0,
     now            |-> 0,
     timestamp      |-> <<>>,
     parsed_url     |-> NoUrl,
     signed_headers |-> EmptyMap,
     payload_hash   |-> <<>>,
     result         |-> NoResult]

\* Lines 57-66: the call starts and reads the clock; a clock before the
\* epoch ends the call with the error.
SignReadClock(t, req) ==
    /\ calls[t].pc = "idle"
    /\ calls' = [calls EXCEPT ![t] =
          IF clock < 0
          THEN [IdleCall EXCEPT !.pc = "done", !.req = req, !.reads = 1,
                                !.now = clock,
                                !.result = Err("System time error")]
          ELSE [IdleCall EXCEPT !.pc = "merge", !.req = req, !.reads = 1,
                                !.now = clock]]
    /\ UNCHANGED <<signer, clock, env, loaded, pc, arg, ret>>

\* A merge step whose timestamp lives in a buffer shared by the calls: it
\* holds the instant read by the first call still in progress.
SignMergeShared(t) ==
    /\ calls[t].pc = "merge"
    /\ LET c          == calls[t]
           first      == CHOOSE u \in DOMAIN calls :
                            /\ calls[u].pc \in {"merge", "authorize"}
                            /\ \A w \in DOMAIN calls :
                                  calls[w].pc \in {"merge", "authorize"} => u <= w
           timestamp  == format_timestamp(calls[first].now)
           parsed_url == parse_url(c.req.url)
       IN  calls' = [calls EXCEPT ![t] =
              IF ~parsed_url.ok
              THEN [c EXCEPT !.pc = "done", !.result = Err("url")]
              ELSE [c EXCEPT !.pc = "authorize",
                             !.timestamp = timestamp,
                             !.parsed_url = parsed_url,
                             !.signed_headers =
                                 merge_headers(signer, timestamp, parsed_url,
                                               c.req.headers, c.req.payload),
                             !.payload_hash = sha256_hex(c.req.payload)]]
    /\ UNCHANGED <<signer, clock, env, loaded, pc, arg, ret>>

\* A merge step that takes the timestamp from what earlier calls left in ret,
\* when they left any.
SignMergeStale(t) ==
    /\ calls[t].pc = "merge"
    /\ LET c          == calls[t]
           timestamp  == IF ret # {} THEN CHOOSE x \in ret : TRUE
                         ELSE format_timestamp(c.now)
           parsed_url == parse_url(c.req.url)
       IN  calls' = [calls EXCEPT ![t] =
              IF ~parsed_url.ok
              THEN [c EXCEPT !.pc = "done", !.result = Err("url")]
              ELSE [c EXCEPT !.pc = "authorize",
                             !.timestamp = timestamp,
                             !.parsed_url = parsed_url,
                             !.signed_headers =
                                 merge_headers(signer, timestamp, parsed_url,
                                               c.req.headers, c.req.payload),
                             !.payload_hash = sha256_hex(c.req.payload)]]
    /\ UNCHANGED <<signer, clock, env, loaded, pc, arg, ret>>

\* Lines 68-85: timestamp, parsed URL, the merged header set, payload hash.
SignMerge(t) ==
    /\ calls[t].pc = "merge"
    /\ LET c          == calls[t]
           timestamp  == format_timestamp(c.now)
           parsed_url == parse_url(c.req.url)
       IN  calls' = [calls EXCEPT ![t] =
              IF ~parsed_url.ok
              THEN [c EXCEPT !.pc = "done", !.result = Err("url")]
              ELSE [c EXCEPT !.pc = "authorize",
                             !.timestamp = timestamp,
                             !.parsed_url = parsed_url,
                             !.signed_headers =
                                 merge_headers(signer, timestamp, parsed_url,
                                               c.req.headers, c.req.payload),
                             !.payload_hash = sha256_hex(c.req.payload)]]
    /\ UNCHANGED <<signer, clock, env, loaded, pc, arg, ret>>

\* Lines 87-117: canonical request, signature, Authorization, the result.
SignAuthorize(t) ==
    /\ calls[t].pc = "authorize"
    /\ LET c == calls[t] IN
       calls' = [calls EXCEPT ![t] =
          [c EXCEPT !.pc = "done",
                    !.result = Ok(Insert(c.signed_headers, AuthName,
                        authorization(signer, c.req.method, c.timestamp,
                            c.parsed_url, c.signed_headers, c.payload_hash)))]]
    /\ UNCHANGED <<signer, clock, env, loaded, pc, arg, ret>>

\* The caller takes the result; the thread may call again.
SignReturn(t) ==
    /\ calls[t].pc = "done"
    /\ calls' = [calls EXCEPT ![t] = IdleCall]
    /\ UNCHANGED <<signer, clock, env, loaded, pc, arg, ret>>

\* The system clock moves (it may also be set back).
Tick ==
    /\ \E c \in ClockValues \ {clock} : clock' = c
    /\ UNCHANGED <<signer, calls, env, loaded, pc, arg, ret>>

InitSigner ==
    /\ signer \in {new(c) : c \in SampleCredentials}
    /\ clock \in ClockValues
    /\ env = NoEnv
    /\ loaded = NotLoaded
    /\ pc = "signer"
    /\ arg = <<>>
    /\ ret = <<>>

\* Concurrent callers of one signer.
Init == InitSigner /\ calls = [t \in Threads |-> IdleCall]

Next ==
    \/ \E t \in Threads, req \in ConcurrentRequests : SignReadClock(t, req)
    \/ \E t \in Threads : SignMerge(t)
    \/ \E t \in Threads : SignAuthorize(t)
    \/ \E t \in Threads : SignReturn(t)
    \/ Tick

Spec == Init /\ [][Next]_vars

\* One caller, every request.
InitOne == InitSigner /\ calls = [t \in {1} |-> IdleCall]

NextOne ==
    \/ \E req \in AllRequests : SignReadClock(1, req)
    \/ SignMerge(1)
    \/ SignAuthorize(1)
    \/ SignReturn(1)
    \/ Tick

SpecOne == InitOne /\ [][NextOne]_vars

---------------------------------------------------------------------------
(* One caller, one call after another on the same signer.  ret holds the   *)
(* x-amz-date values the caller was given by its earlier calls.            *)

SeqRequests ==
    ConcurrentRequests
    \cup {Request(Post, <<"h", "/", "m">>,
                  [k \in {<<"X", "-", "A", "m", "z", "-", "D", "a", "t", "e">>}
                      |-> <<"w">>], <<>>)}

\* The caller takes the result and keeps its x-amz-date; it may call again.
KeepResult(t) ==
    /\ calls[t].pc = "done"
    /\ ret' = IF calls[t].result.ok
              THEN ret \cup {calls[t].result.headers[DateName]}
              ELSE ret
    /\ calls' = [calls EXCEPT ![t] = IdleCall]
    /\ UNCHANGED <<signer, clock, env, loaded, pc, arg>>

InitSeq ==
    /\ signer \in {new(c) : c \in SampleCredentials}
    /\ clock \in ClockValues
    /\ calls = [t \in {1} |-> IdleCall]
    /\ env = NoEnv
    /\ loaded = NotLoaded
    /\ pc = "signer"
    /\ arg = <<>>
    /\ ret = {}

NextSeq ==
    \/ \E req \in SeqRequests : SignReadClock(1, req)
    \/ SignMerge(1)
    \/ SignAuthorize(1)
    \/ KeepResult(1)
    \/ Tick

SpecSeq == InitSeq /\ [][NextSeq]_vars

---------------------------------------------------------------------------
(* The run of AwsCredentials::from_env                                     *)

InitEnv ==
    /\ env \in SampleEnvs
    /\ loaded = NotLoaded
    /\ pc = "from_env"
    /\ signer = NoSigner
    /\ clock = 0
    /\ calls = <<>>
    /\ arg = <<>>
    /\ ret = <<>>

\* The process calls AwsCredentials::from_env.
LoadFromEnv ==
    /\ pc = "from_env"
    /\ loaded' = from_env(env)
    /\ pc' = "done"
    /\ UNCHANGED <<signer, clock, calls, env, arg, ret>>

NextEnv == LoadFromEnv

SpecEnv == InitEnv /\ [][NextEnv]_vars

---------------------------------------------------------------------------
(* Debug formatting of the types that hold secrets                         *)

\* <str as Debug>::fmt of text that needs no escape.
fmt_str(x) == <<"QUOTE">> \o x \o <<"QUOTE">>

\* <Option<String> as Debug>::fmt
fmt_option(o) ==
    IF o.some THEN <<"Some(">> \o fmt_str(o.value) \o <<")">> ELSE <<"None">>

\* #[derive(Debug)] of AwsCredentials.
fmt_AwsCredentials(c) ==
    <<"AwsCredentials { access_key_id: ">> \o fmt_str(c.access_key_id)
      \o <<", secret_access_key: ">> \o fmt_str(c.secret_access_key)
      \o <<", session_token: ">> \o fmt_option(c.session_token)
      \o <<", region: ">> \o fmt_str(c.region) \o <<" }">>

\* impl Debug for AuthData.
fmt_AuthData(a) ==
    IF a.variant = "FromEnv" THEN <<"AuthData::FromEnv(REDACTED)">>
    ELSE IF a.variant = "Key" THEN <<"AuthData::Single(REDACTED)">>
    ELSE IF a.variant = "BearerToken" THEN <<"AuthData::BearerToken(REDACTED)">>
    ELSE IF a.variant = "MultiKeys" THEN <<"AuthData::Multi(REDACTED)">>
    ELSE <<"AuthData::RequestOverride { url: REDACTED, headers: REDACTED }">>

\* format!("{:?}", value)
fmt_debug(v) ==
    IF v.type = "AwsCredentials" THEN fmt_AwsCredentials(v.value)
    ELSE fmt_AuthData(v.value)

SampleSecrets == {<<"s", "k">>, <<"t", "0", "p">>, <<"k", "e", "y", "9">>}

SampleTokens == {None} \cup {Some(x) : x \in SampleSecrets}

AwsCredentialsValues ==
    {[type |-> "AwsCredentials",
      value |-> [access_key_id |-> ak, secret_access_key |-> sk,
                 session_token |-> tok, region |-> rg]] :
        ak \in {<<"A", "K">>, <<"A", "2">>}, sk \in SampleSecrets,
        tok \in SampleTokens, rg \in {UsEast1, <<"r", "1">>}}

AuthData(variant, content) ==
    [type |-> "AuthData", value |-> [variant |-> variant, content |-> content]]

AuthDataValues ==
    {AuthData(v, x) : v \in {"FromEnv", "Key", "BearerToken"}, x \in SampleSecrets}
    \cup {AuthData("MultiKeys", [k \in {<<"k">>} |-> x]) : x \in SampleSecrets}
    \cup {AuthData("RequestOverride",
              [url |-> u, headers |-> [k \in {AuthName} |-> x]]) :
             u \in {<<"u", "1">>, <<"u", "2">>}, x \in SampleSecrets}

DebugValues == AwsCredentialsValues \cup AuthDataValues

InitDebug ==
    /\ arg \in DebugValues
    /\ ret = <<>>
    /\ pc = "debug"
    /\ signer = NoSigner
    /\ clock = 0
    /\ calls = <<>>
    /\ env = NoEnv
    /\ loaded = NotLoaded

\* The value is formatted with {:?}.
FormatDebug ==
    /\ pc = "debug"
    /\ ret' = fmt_debug(arg)
    /\ pc' = "done"
    /\ UNCHANGED <<signer, clock, calls, env, loaded, arg>>

NextDebug == FormatDebug

SpecDebug == InitDebug /\ [][NextDebug]_vars

---------------------------------------------------------------------------
(* The canonical query of a raw query string                               *)

QueryAlphabet == {"a", "b", "&", "=", "%", " "}

MaxQueryLen == 3

QueryInputs == UNION {[1..n -> QueryAlphabet] : n \in 0..MaxQueryLen}

InitQuery ==
    /\ arg \in QueryInputs
    /\ ret = <<>>
    /\ pc = "query"
    /\ signer = NoSigner
    /\ clock = 0
    /\ calls = <<>>
    /\ env = NoEnv
    /\ loaded = NotLoaded

\* create_canonical_request canonicalizes the query Some(arg).
Canonicalize ==
    /\ pc = "query"
    /\ ret' = canonical_query(arg)
    /\ pc' = "done"
    /\ UNCHANGED <<signer, clock, calls, env, loaded, arg>>

NextQuery == Canonicalize

SpecQuery == InitQuery /\ [][NextQuery]_vars

---------------------------------------------------------------------------
(* uri_encode of a string, with and without escaping '/'                   *)

\* Bytes at and next to the ends of the ranges that are copied, bytes that
\* are escaped, and bytes above 0x7f.
UriAlphabet ==
    {"A", "Z", "a", "z", "0", "9", "-", "_", ".", "~", "/", "@", "[",
     "BACKTICK", "{", ":", " ", "%", "+", "0xC3", "0xA9"}

MaxUriLen == 2

HelloWorld == <<"h", "e", "l", "l", "o", " ", "w", "o", "r", "l", "d">>

PathToResource == <<"p", "a", "t", "h", "/", "t", "o", "/", "r", "e", "s", "o",
                    "u", "r", "c", "e">>

\* Every string over UriAlphabet up to MaxUriLen bytes, every single byte,
\* and the strings of test_uri_encode.
UriInputs ==
    UNION {[1..n -> UriAlphabet] : n \in 0..MaxUriLen}
    \cup {<<c>> : c \in DOMAIN OrdTable}
    \cup {HelloWorld, PathToResource}

InitUri ==
    /\ arg \in {[s |-> s, encode_slash |-> b] : s \in UriInputs, b \in BOOLEAN}
    /\ ret = <<>>
    /\ pc = "uri_encode"
    /\ signer = NoSigner
    /\ clock = 0
    /\ calls = <<>>
    /\ env = NoEnv
    /\ loaded = NotLoaded

\* uri_encode is applied.
UriEncode ==
    /\ pc = "uri_encode"
    /\ ret' = uri_encode(arg.s, arg.encode_slash)
    /\ pc' = "done"
    /\ UNCHANGED <<signer, clock, calls, env, loaded, arg>>

NextUri == UriEncode

SpecUri == InitUri /\ [][NextUri]_vars

---------------------------------------------------------------------------
(* format_timestamp, its year loop taken one iteration at a time.  The     *)
(* input unix_secs is given as its quotient and remainder by 86400.        *)

\* Day numbers 0..MaxDay: 1970 and the start of 1971.
MaxDay == 400

SampleSecs == {0, 59, 3600, 45045, 86399}

\* 1972-02-28..03-01 and 1972-12-31/1973-01-01; 2000-02-28..03-01;
\* 2024-01-15, 2024-02-29, 2024-12-31; 2100-02-28, 2100-03-01;
\* 9999-12-31 and 10000-01-01.
SampleDays ==
    {788, 789, 790, 1095, 1096, 11015, 11016, 11017, 19737, 19782, 20088,
     47540, 47541, 2932896, 2932897}

TimestampInputs ==
    {[days |-> d, secs |-> r] : d \in 0..MaxDay, r \in {0, 86399}}
    \cup {[days |-> d, secs |-> r] : d \in {0, 19737}, r \in SampleSecs}
    \cup {[days |-> d, secs |-> r] : d \in SampleDays, r \in {0, 86399}}

InitTimestamp ==
    /\ arg \in TimestampInputs
    /\ ret = [loop |-> YearLoop(1970, 0), text |-> <<>>]
    /\ pc = "timestamp"
    /\ signer = NoSigner
    /\ clock = 0
    /\ calls = <<>>
    /\ env = NoEnv
    /\ loaded = NotLoaded

\* format_timestamp starts: days_to_ymd enters its year loop.
TimestampStart ==
    /\ pc = "timestamp"
    /\ ret' = [ret EXCEPT !.loop = YearLoop(1970, arg.days)]
    /\ pc' = "year"
    /\ UNCHANGED <<signer, clock, calls, env, loaded, arg>>

\* One iteration of the year loop.
TimestampYear ==
    /\ pc = "year"
    /\ ~year_loop_break(ret.loop)
    /\ ret' = [ret EXCEPT !.loop = year_loop_step(ret.loop)]
    /\ UNCHANGED <<signer, clock, calls, env, loaded, pc, arg>>

\* The loop breaks: month, day and the formatted text.
TimestampFinish ==
    /\ pc = "year"
    /\ year_loop_break(ret.loop)
    /\ ret' = [ret EXCEPT !.text = format_fields(ymd_of_year(ret.loop), arg.secs)]
    /\ pc' = "done"
    /\ UNCHANGED <<signer, clock, calls, env, loaded, arg>>

NextTimestamp == TimestampStart \/ TimestampYear \/ TimestampFinish

SpecTimestamp == InitTimestamp /\ [][NextTimestamp]_vars

---------------------------------------------------------------------------
(* SHA-256, computed.  Here a byte is a number 0..255 and a u32 is the     *)
(* pair <<high 16 bits, low 16 bits>>.                                     *)

\* The round constants.
K ==
    <<<<17034, 12184>>, <<28983, 17553>>, <<46528, 64463>>, <<59829, 56229>>,
      <<14678, 49755>>, <<23025, 4593>>, <<37439, 33444>>, <<43804, 24277>>,
      <<55303, 43672>>, <<4739, 23297>>, <<9265, 34238>>, <<21772, 32195>>,
      <<29374, 23924>>, <<32990, 45566>>, <<39900, 1703>>, <<49563, 61812>>,
      <<58523, 27073>>, <<61374, 18310>>, <<4033, 40390>>, <<9228, 41420>>,
      <<11753, 11375>>, <<19060, 33962>>, <<23728, 43484>>, <<30457, 35034>>,
      <<38974, 20818>>, <<43057, 50797>>, <<45059, 10184>>, <<48985, 32711>>,
      <<50912, 3059>>, <<54695, 37191>>, <<1738, 25425>>, <<5161, 10599>>,
      <<10167, 2693>>, <<11803, 8504>>, <<19756, 28156>>, <<21304, 3347>>,
      <<25866, 29524>>, <<30314, 2747>>, <<33218, 51502>>, <<37490, 11397>>,
      <<41663, 59553>>, <<43034, 26187>>, <<49739, 35696>>, <<51052, 20899>>,
      <<53650, 59417>>, <<54937, 1572>>, <<62478, 13701>>, <<4202, 41072>>,
      <<6564, 49430>>, <<7735, 27656>>, <<10056, 30540>>, <<13488, 48309>>,
      <<14620, 3251>>, <<20184, 43594>>, <<23452, 51791>>, <<26670, 28659>>,
      <<29839, 33518>>, <<30885, 25455>>, <<33992, 30740>>, <<36039, 520>>,
      <<37054, 65530>>, <<42064, 27883>>, <<48889, 41975>>, <<50801, 30962>>>>

\* The initial hash values.
H0 ==
    <<<<27145, 58983>>, <<47975, 44677>>, <<15470, 62322>>, <<42319, 62778>>,
      <<20750, 21119>>, <<39685, 26764>>, <<8067, 55723>>, <<23520, 52505>>>>

\* a & b on 16-bit numbers.
RECURSIVE BitAnd(_, _)
BitAnd(a, b) ==
    IF a = 0 \/ b = 0 THEN 0
    ELSE (a % 2) * (b % 2) + 2 * BitAnd(a \div 2, b \div 2)

\* a ^ b on 16-bit numbers.
RECURSIVE BitXor(_, _)
BitXor(a, b) ==
    IF a = 0 THEN b
    ELSE IF b = 0 THEN a
    ELSE ((a + b) % 2) + 2 * BitXor(a \div 2, b \div 2)

\* x & y
and(x, y) == <<BitAnd(x[1], y[1]), BitAnd(x[2], y[2])>>

\* x ^ y
xor(x, y) == <<BitXor(x[1], y[1]), BitXor(x[2], y[2])>>

\* !x
not(x) == <<65535 - x[1], 65535 - x[2]>>

\* u32::wrapping_add
wrapping_add(x, y) ==
    LET lo == x[2] + y[2]
        hi == x[1] + y[1] + (lo \div 65536)
    IN  <<hi % 65536, lo % 65536>>

\* u32::rotate_right, 0 <= n < 32
rotate_right(x, n) ==
    LET y == IF n >= 16 THEN <<x[2], x[1]>> ELSE x
        p == 2 ^ (n % 16)
        q == 2 ^ (16 - (n % 16))
    IN  <<(y[1] \div p) + (y[2] % p) * q, (y[2] \div p) + (y[1] % p) * q>>

\* A shift that brings the low bits back in at the top.
shr_rotating(x, n) == rotate_right(x, n)

\* x >> n, 0 < n < 16
shr(x, n) ==
    LET p == 2 ^ n
        q == 2 ^ (16 - n)
    IN  <<x[1] \div p, (x[2] \div p) + (x[1] % p) * q>>

\* u32::from_be_bytes
from_be_bytes(word) == <<word[1] * 256 + word[2], word[3] * 256 + word[4]>>

\* u32::to_be_bytes
to_be_bytes(val) ==
    <<val[1] \div 256, val[1] % 256, val[2] \div 256, val[2] % 256>>

\* The while loop of the padding.
RECURSIVE pad_zeros(_)
pad_zeros(padded) ==
    IF Len(padded) % 64 # 56 THEN pad_zeros(Append(padded, 0)) ELSE padded

\* Pre-processing: the padded message.  ml is below 2^31 here, so the upper
\* four bytes of ml.to_be_bytes() are zero.
sha256_padded(data) ==
    LET ml == Len(data) * 8
    IN  pad_zeros(Append(data, 128))
          \o <<0, 0, 0, 0, (ml \div 16777216) % 256, (ml \div 65536) % 256,
                (ml \div 256) % 256, ml % 256>>

\* padded.chunks(64): chunk number n, from 1.
chunk_of(padded, n) == SubSeq(padded, 64 * (n - 1) + 1, Min(64 * n, Len(padded)))

\* The sixteen big-endian words of a chunk.
chunk_words(chunk) ==
    [i \in 1..16 |-> from_be_bytes(SubSeq(chunk, 4 * i - 3, 4 * i))]

\* The message schedule: w[i] of the code is w[i + 1] here.
RECURSIVE extend_words(_)
extend_words(w) ==
    IF Len(w) >= 64 THEN w
    ELSE LET i  == Len(w)
             s0 == xor(xor(rotate_right(w[i - 15 + 1], 7),
                           rotate_right(w[i - 15 + 1], 18)),
                       shr(w[i - 15 + 1], 3))
             s1 == xor(xor(rotate_right(w[i - 2 + 1], 17),
                           rotate_right(w[i - 2 + 1], 19)),
                       shr(w[i - 2 + 1], 10))
         IN  extend_words(Append(w,
                 wrapping_add(wrapping_add(wrapping_add(w[i - 16 + 1], s0),
                                           w[i - 7 + 1]), s1)))

\* One iteration of the compression loop on <<a, b, c, d, e, f, g, hh>>.
compression_round(v, k, wi) ==
    LET a == v[1]
        b == v[2]
        c == v[3]
        d == v[4]
        e == v[5]
        f == v[6]
        g == v[7]
        hh == v[8]
        s1 == xor(xor(rotate_right(e, 6), rotate_right(e, 11)),
                  rotate_right(e, 25))
        ch == xor(and(e, f), and(not(e), g))
        temp1 == wrapping_add(wrapping_add(wrapping_add(wrapping_add(hh, s1),
                     ch), k), wi)
        s0 == xor(xor(rotate_right(a, 2), rotate_right(a, 13)),
                  rotate_right(a, 22))
        maj == xor(xor(and(a, b), and(a, c)), and(b, c))
        temp2 == wrapping_add(s0, maj)
    IN  <<wrapping_add(temp1, temp2), a, b, c, wrapping_add(d, temp1), e, f, g>>

\* hash.iter().map(|b| format!("{:02x}", b)).collect()
to_hex(hash) ==
    LET digits == <<"0", "1", "2", "3", "4", "5", "6", "7", "8", "9",
                    "a", "b", "c", "d", "e", "f">>
    IN  Concat([i \in 1..Len(hash) |->
                   <<digits[(hash[i] \div 16) + 1], digits[(hash[i] % 16) + 1]>>])

\* Messages and their SHA-256 digests as published (FIPS 180-4), in hex:
\* short texts, one byte above 0x7f, the 56-byte "abcdbcdecdefdefg...nopq",
\* runs of one byte and the bytes 0, 1, 2, ... of several lengths.
Sha256Vectors ==
    <<
     [data |-> <<>>,
      hex  |-> <<"e", "3", "b", "0", "c", "4", "4", "2", "9", "8", "f", "c", "1", "c", "1", "4",
               "9", "a", "f", "b", "f", "4", "c", "8", "9", "9", "6", "f", "b", "9", "2", "4",
               "2", "7", "a", "e", "4", "1", "e", "4", "6", "4", "9", "b", "9", "3", "4", "c",
               "a", "4", "9", "5", "9", "9", "1", "b", "7", "8", "5", "2", "b", "8", "5", "5">>],
     [data |-> <<104, 101, 108, 108, 111>>,  \* "hello"
      hex  |-> <<"2", "c", "f", "2", "4", "d", "b", "a", "5", "f", "b", "0", "a", "3", "0", "e",
               "2", "6", "e", "8", "3", "b", "2", "a", "c", "5", "b", "9", "e", "2", "9", "e",
               "1", "b", "1", "6", "1", "e", "5", "c", "1", "f", "a", "7", "4", "2", "5", "e",
               "7", "3", "0", "4", "3", "3", "6", "2", "9", "3", "8", "b", "9", "8", "2", "4">>],
     [data |-> <<97, 98, 99>>,  \* "abc"
      hex  |-> <<"b", "a", "7", "8", "1", "6", "b", "f", "8", "f", "0", "1", "c", "f", "e", "a",
               "4", "1", "4", "1", "4", "0", "d", "e", "5", "d", "a", "e", "2", "2", "2", "3",
               "b", "0", "0", "3", "6", "1", "a", "3", "9", "6", "1", "7", "7", "a", "9", "c",
               "b", "4", "1", "0", "f", "f", "6", "1", "f", "2", "0", "0", "1", "5", "a", "d">>],
     [data |-> <<189>>,
      hex  |-> <<"6", "8", "3", "2", "5", "7", "2", "0", "a", "a", "b", "d", "7", "c", "8", "2",
               "f", "3", "0", "f", "5", "5", "4", "b", "3", "1", "3", "d", "0", "5", "7", "0",
               "c", "9", "5", "a", "c", "c", "b", "b", "7", "d", "c", "4", "b", "5", "a", "a",
               "e", "1", "1", "2", "0", "4", "c", "0", "8", "f", "f", "e", "7", "3", "2", "b">>],
     [data |-> <<97, 98, 99, 100, 98, 99, 100, 101, 99, 100, 101, 102, 100, 101, 102,
                 103, 101, 102, 103, 104, 102, 103, 104, 105, 103,
                 104, 105, 106, 104, 105, 106, 107, 105, 106, 107,
                 108, 106, 107, 108, 109, 107, 108, 109, 110, 108,
                 109, 110, 111, 109, 110, 111, 112, 110, 111, 112,
                 113>>,
      hex  |-> <<"2", "4", "8", "d", "6", "a", "6", "1", "d", "2", "0", "6", "3", "8", "b", "8",
               "e", "5", "c", "0", "2", "6", "9", "3", "0", "c", "3", "e", "6", "0", "3", "9",
               "a", "3", "3", "c", "e", "4", "5", "9", "6", "4", "f", "f", "2", "1", "6", "7",
               "f", "6", "e", "c", "e", "d", "d", "4", "1", "9", "d", "b", "0", "6", "c", "1">>],
     [data |-> [i \in 1..1 |-> 97],
      hex  |-> <<"c", "a", "9", "7", "8", "1", "1", "2", "c", "a", "1", "b", "b", "d", "c", "a",
               "f", "a", "c", "2", "3", "1", "b", "3", "9", "a", "2", "3", "d", "c", "4", "d",
               "a", "7", "8", "6", "e", "f", "f", "8", "1", "4", "7", "c", "4", "e", "7", "2",
               "b", "9", "8", "0", "7", "7", "8", "5", "a", "f", "e", "e", "4", "8", "b", "b">>],
     [data |-> [i \in 1..2 |-> 97],
      hex  |-> <<"9", "6", "1", "b", "6", "d", "d", "3", "e", "d", "e", "3", "c", "b", "8", "e",
               "c", "b", "a", "a", "c", "b", "d", "6", "8", "d", "e", "0", "4", "0", "c", "d",
               "7", "8", "e", "b", "2", "e", "d", "5", "8", "8", "9", "1", "3", "0", "c", "c",
               "e", "b", "4", "c", "4", "9", "2", "6", "8", "e", "a", "4", "d", "5", "0", "6">>],
     [data |-> [i \in 1..4 |-> 97],
      hex  |-> <<"6", "1", "b", "e", "5", "5", "a", "8", "e", "2", "f", "6", "b", "4", "e", "1",
               "7", "2", "3", "3", "8", "b", "d", "d", "f", "1", "8", "4", "d", "6", "d", "b",
               "e", "e", "2", "9", "c", "9", "8", "8", "5", "3", "e", "0", "a", "0", "4", "8",
               "5", "e", "c", "e", "e", "7", "f", "2", "7", "b", "9", "a", "f", "0", "b", "4">>],
     [data |-> [i \in 1..8 |-> 97],
      hex  |-> <<"1", "f", "3", "c", "e", "4", "0", "4", "1", "5", "a", "2", "0", "8", "1", "f",
               "a", "3", "e", "e", "e", "7", "5", "f", "c", "3", "9", "f", "f", "f", "8", "e",
               "5", "6", "c", "2", "2", "2", "7", "0", "d", "1", "a", "9", "7", "8", "a", "7",
               "2", "4", "9", "b", "5", "9", "2", "d", "c", "e", "b", "d", "2", "0", "b", "4">>],
     [data |-> [i \in 1..16 |-> 97],
      hex  |-> <<"0", "c", "0", "b", "e", "a", "c", "e", "f", "8", "8", "7", "7", "b", "b", "f",
               "2", "4", "1", "6", "e", "b", "0", "0", "f", "2", "b", "5", "d", "c", "9", "6",
               "3", "5", "4", "e", "2", "6", "d", "d", "1", "d", "f", "5", "5", "1", "7", "3",
               "2", "0", "4", "5", "9", "b", "1", "2", "3", "6", "8", "6", "0", "f", "8", "c">>],
     [data |-> [i \in 1..31 |-> 97],
      hex  |-> <<"6", "1", "c", "6", "0", "b", "4", "8", "7", "d", "1", "a", "9", "2", "1", "e",
               "0", "b", "c", "c", "9", "b", "f", "8", "5", "3", "d", "d", "a", "0", "f", "b",
               "1", "5", "9", "b", "3", "0", "b", "f", "5", "7", "b", "2", "e", "2", "d", "2",
               "c", "7", "5", "3", "b", "0", "0", "b", "e", "1", "5", "b", "5", "a", "0", "9">>],
     [data |-> [i \in 1..32 |-> 97],
      hex  |-> <<"3", "b", "a", "3", "f", "5", "f", "4", "3", "b", "9", "2", "6", "0", "2", "6",
               "8", "3", "c", "1", "9", "a", "e", "e", "6", "2", "a", "2", "0", "3", "4", "2",
               "b", "0", "8", "4", "d", "d", "5", "9", "7", "1", "d", "d", "d", "3", "3", "8",
               "0", "8", "d", "8", "1", "a", "3", "2", "8", "8", "7", "9", "a", "5", "4", "7">>],
     [data |-> [i \in 1..54 |-> 97],
      hex  |-> <<"a", "3", "f", "0", "1", "b", "6", "9", "3", "9", "2", "5", "6", "1", "2", "7",
               "5", "8", "2", "a", "c", "8", "a", "e", "9", "f", "b", "4", "7", "a", "3", "8",
               "2", "a", "2", "4", "4", "6", "8", "0", "8", "0", "6", "a", "3", "f", "6", "1",
               "3", "a", "1", "1", "8", "8", "5", "1", "c", "1", "c", "a", "1", "d", "4", "7">>],
     [data |-> [i \in 1..55 |-> 97],
      hex  |-> <<"9", "f", "4", "3", "9", "0", "f", "8", "d", "3", "0", "c", "2", "d", "d", "9",
               "2", "e", "c", "9", "f", "0", "9", "5", "b", "6", "5", "e", "2", "b", "9", "a",
               "e", "9", "b", "0", "a", "9", "2", "5", "a", "5", "2", "5", "8", "e", "2", "4",
               "1", "c", "9", "f", "1", "e", "9", "1", "0", "f", "7", "3", "4", "3", "1", "8">>],
     [data |-> [i \in 1..56 |-> 97],
      hex  |-> <<"b", "3", "5", "4", "3", "9", "a", "4", "a", "c", "6", "f", "0", "9", "4", "8",
               "b", "6", "d", "6", "f", "9", "e", "3", "c", "6", "a", "f", "0", "f", "5", "f",
               "5", "9", "0", "c", "e", "2", "0", "f", "1", "b", "d", "e", "7", "0", "9", "0",
               "e", "f", "7", "9", "7", "0", "6", "8", "6", "e", "c", "6", "7", "3", "8", "a">>],
     [data |-> [i \in 1..57 |-> 97],
      hex  |-> <<"f", "1", "3", "b", "2", "d", "7", "2", "4", "6", "5", "9", "e", "b", "3", "b",
               "f", "4", "7", "f", "2", "d", "d", "6", "a", "f", "1", "a", "c", "c", "c", "8",
               "7", "b", "8", "1", "f", "0", "9", "f", "5", "9", "f", "2", "b", "7", "5", "e",
               "5", "c", "0", "b", "e", "d", "6", "5", "8", "9", "d", "f", "e", "8", "c", "6">>],
     [data |-> [i \in 1..63 |-> 97],
      hex  |-> <<"7", "d", "3", "e", "7", "4", "a", "0", "5", "d", "7", "d", "b", "1", "5", "b",
               "c", "e", "4", "a", "d", "9", "e", "c", "0", "6", "5", "8", "e", "a", "9", "8",
               "e", "3", "f", "0", "6", "e", "e", "e", "c", "f", "1", "6", "b", "4", "c", "6",
               "f", "f", "f", "2", "d", "a", "4", "5", "7", "d", "d", "c", "2", "f", "3", "4">>],
     [data |-> [i \in 1..64 |-> 97],
      hex  |-> <<"f", "f", "e", "0", "5", "4", "f", "e", "7", "a", "e", "0", "c", "b", "6", "d",
               "c", "6", "5", "c", "3", "a", "f", "9", "b", "6", "1", "d", "5", "2", "0", "9",
               "f", "4", "3", "9", "8", "5", "1", "d", "b", "4", "3", "d", "0", "b", "a", "5",
               "9", "9", "7", "3", "3", "7", "d", "f", "1", "5", "4", "6", "6", "8", "e", "b">>],
     [data |-> [i \in 1..65 |-> 97],
      hex  |-> <<"6", "3", "5", "3", "6", "1", "c", "4", "8", "b", "b", "9", "e", "a", "b", "1",
               "4", "1", "9", "8", "e", "7", "6", "e", "a", "8", "a", "b", "7", "f", "1", "a",
               "4", "1", "6", "8", "5", "d", "6", "a", "d", "6", "2", "a", "a", "9", "1", "4",
               "6", "d", "3", "0", "1", "d", "4", "f", "1", "7", "e", "b", "0", "a", "e", "0">>],
     [data |-> [i \in 1..119 |-> 97],
      hex  |-> <<"3", "1", "e", "b", "a", "5", "1", "c", "3", "1", "3", "a", "5", "c", "0", "8",
               "2", "2", "6", "a", "d", "f", "1", "8", "d", "4", "a", "3", "5", "9", "c", "f",
               "d", "f", "d", "8", "d", "2", "e", "8", "1", "6", "b", "1", "3", "f", "4", "a",
               "f", "9", "5", "2", "f", "7", "e", "a", "6", "5", "8", "4", "d", "c", "f", "b">>],
     [data |-> [i \in 1..120 |-> 97],
      hex  |-> <<"2", "f", "3", "d", "3", "3", "5", "4", "3", "2", "c", "7", "0", "b", "5", "8",
               "0", "a", "f", "0", "e", "8", "e", "1", "b", "3", "6", "7", "4", "a", "7", "c",
               "0", "2", "0", "d", "6", "8", "3", "a", "a", "5", "f", "7", "3", "a", "a", "a",
               "e", "d", "f", "d", "c", "5", "5", "a", "f", "9", "0", "4", "c", "2", "1", "c">>],
     [data |-> [i \in 1..1 |-> 255],
      hex  |-> <<"a", "8", "1", "0", "0", "a", "e", "6", "a", "a", "1", "9", "4", "0", "d", "0",
               "b", "6", "6", "3", "b", "b", "3", "1", "c", "d", "4", "6", "6", "1", "4", "2",
               "e", "b", "b", "d", "b", "d", "5", "1", "8", "7", "1", "3", "1", "b", "9", "2",
               "d", "9", "3", "8", "1", "8", "9", "8", "7", "8", "3", "2", "e", "b", "8", "9">>],
     [data |-> [i \in 1..55 |-> 255],
      hex  |-> <<"a", "a", "d", "a", "e", "d", "0", "0", "a", "3", "c", "5", "f", "b", "b", "8",
               "0", "7", "2", "a", "e", "7", "f", "1", "9", "8", "4", "b", "a", "8", "1", "9",
               "9", "f", "b", "e", "5", "2", "7", "2", "d", "e", "4", "2", "7", "d", "1", "1",
               "e", "a", "f", "3", "1", "5", "8", "3", "a", "f", "3", "7", "d", "b", "5", "1">>],
     [data |-> [i \in 1..56 |-> 255],
      hex  |-> <<"5", "2", "8", "f", "f", "5", "0", "a", "b", "0", "5", "e", "7", "7", "b", "b",
               "b", "d", "2", "2", "4", "a", "9", "e", "c", "8", "6", "1", "6", "5", "d", "b",
               "b", "6", "8", "2", "4", "a", "9", "a", "9", "e", "f", "b", "5", "4", "4", "b",
               "e", "0", "a", "1", "d", "5", "7", "d", "5", "b", "4", "1", "6", "4", "5", "7">>],
     [data |-> [i \in 1..64 |-> 255],
      hex  |-> <<"8", "6", "6", "7", "e", "7", "1", "8", "2", "9", "4", "e", "9", "e", "0", "d",
               "f", "1", "d", "3", "0", "6", "0", "0", "b", "a", "3", "e", "e", "b", "2", "0",
               "1", "f", "7", "6", "4", "a", "a", "d", "2", "d", "a", "d", "7", "2", "7", "4",
               "8", "6", "4", "3", "e", "4", "a", "2", "8", "5", "e", "1", "d", "1", "f", "7">>],
     [data |-> [i \in 1..32 |-> i - 1],
      hex  |-> <<"6", "3", "0", "d", "c", "d", "2", "9", "6", "6", "c", "4", "3", "3", "6", "6",
               "9", "1", "1", "2", "5", "4", "4", "8", "b", "b", "b", "2", "5", "b", "4", "f",
               "f", "4", "1", "2", "a", "4", "9", "c", "7", "3", "2", "d", "b", "2", "c", "8",
               "a", "b", "c", "1", "b", "8", "5", "8", "1", "b", "d", "7", "1", "0", "d", "d">>],
     [data |-> [i \in 1..64 |-> i - 1],
      hex  |-> <<"f", "d", "e", "a", "b", "9", "a", "c", "f", "3", "7", "1", "0", "3", "6", "2",
               "b", "d", "2", "6", "5", "8", "c", "d", "c", "9", "a", "2", "9", "e", "8", "f",
               "9", "c", "7", "5", "7", "f", "c", "f", "9", "8", "1", "1", "6", "0", "3", "a",
               "8", "c", "4", "4", "7", "c", "d", "1", "d", "9", "1", "5", "1", "1", "0", "8">>],
     [data |-> [i \in 1..100 |-> i - 1],
      hex  |-> <<"b", "c", "e", "0", "a", "f", "f", "1", "9", "c", "f", "5", "a", "a", "6", "a",
               "7", "4", "6", "9", "a", "3", "0", "d", "6", "1", "d", "0", "4", "e", "4", "3",
               "7", "6", "e", "4", "b", "b", "f", "6", "3", "8", "1", "0", "5", "2", "e", "e",
               "9", "e", "7", "f", "3", "3", "9", "2", "5", "c", "9", "5", "4", "d", "5", "2">>],
     [data |-> [i \in 1..129 |-> i - 1],
      hex  |-> <<"5", "0", "9", "9", "c", "6", "a", "5", "6", "2", "0", "3", "f", "9", "6", "8",
               "7", "f", "7", "d", "3", "3", "f", "4", "b", "f", "d", "f", "5", "7", "6", "d",
               "3", "1", "d", "c", "9", "1", "f", "6", "b", "6", "9", "5", "e", "c", "e", "a",
               "3", "8", "b", "2", "7", "7", "0", "c", "8", "7", "6", "3", "1", "1", "3", "5">>]
    >>

InitSha256 ==
    /\ arg \in {Sha256Vectors[i].data : i \in 1..Len(Sha256Vectors)}
    /\ ret = [padded |-> <<>>, h |-> H0, chunk |-> 1, w |-> <<>>, v |-> H0,
              i |-> 0, hash |-> <<>>]
    /\ pc = "sha256"
    /\ signer = NoSigner
    /\ clock = 0
    /\ calls = <<>>
    /\ env = NoEnv
    /\ loaded = NotLoaded

\* sha256 starts: the message is padded.
Sha256Pad ==
    /\ pc = "sha256"
    /\ ret' = [ret EXCEPT !.padded = sha256_padded(arg)]
    /\ pc' = "chunk"
    /\ UNCHANGED <<signer, clock, calls, env, loaded, arg>>

\* The loop over the chunks takes the next chunk: its sixty-four words and
\* the working variables.
Sha256Words ==
    /\ pc = "chunk"
    /\ 64 * (ret.chunk - 1) < Len(ret.padded)
    /\ ret' = [ret EXCEPT
                  !.w = extend_words(chunk_words(chunk_of(ret.padded, ret.chunk))),
                  !.v = ret.h,
                  !.i = 0]
    /\ pc' = "rounds"
    /\ UNCHANGED <<signer, clock, calls, env, loaded, arg>>

\* One iteration of the compression loop.
Sha256Round ==
    /\ pc = "rounds"
    /\ ret.i < 64
    /\ ret' = [ret EXCEPT
                  !.v = compression_round(ret.v, K[ret.i + 1], ret.w[ret.i + 1]),
                  !.i = ret.i + 1]
    /\ UNCHANGED <<signer, clock, calls, env, loaded, pc, arg>>

\* The compression loop ends: the chunk is added to the hash value.
Sha256Add ==
    /\ pc = "rounds"
    /\ ret.i >= 64
    /\ ret' = [ret EXCEPT
                  !.h = [i \in 1..8 |-> wrapping_add(ret.h[i], ret.v[i])],
                  !.chunk = ret.chunk + 1]
    /\ pc' = "chunk"
    /\ UNCHANGED <<signer, clock, calls, env, loaded, arg>>

\* The loop over the chunks ends: the hash value is written out.
Sha256Finish ==
    /\ pc = "chunk"
    /\ 64 * (ret.chunk - 1) >= Len(ret.padded)
    /\ ret' = [ret EXCEPT !.hash = Concat([i \in 1..8 |-> to_be_bytes(ret.h[i])])]
    /\ pc' = "done"
    /\ UNCHANGED <<signer, clock, calls, env, loaded, arg>>

NextSha256 ==
    Sha256Pad \/ Sha256Words \/ Sha256Round \/ Sha256Add \/ Sha256Finish

SpecSha256 == InitSha256 /\ [][NextSha256]_vars

---------------------------------------------------------------------------
(* Properties of sign_request                                              *)

\* The calls that have returned a header map.
Signed == {t \in DOMAIN calls : calls[t].pc = "done" /\ calls[t].result.ok}

\* The keys of m that name header n, letter case ignored.
Named(m, n) == {k \in DOMAIN m : to_lowercase(k) = n}

IsLowercase(k) == to_lowercase(k) = k

IsAscending(names) ==
    \A i \in 1..(Len(names) - 1) : StrLess(names[i], names[i + 1])

\* The first index at which p occurs in s from index from on, 0 when absent.
FindSub(s, p, from) ==
    LET hits == {i \in from..(Len(s) - Len(p) + 1) :
                    SubSeq(s, i, i + Len(p) - 1) = p}
    IN  IF hits = {} THEN 0 ELSE CHOOSE i \in hits : \A j \in hits : i <= j

\* The text between "SignedHeaders=" and ", Signature=" of an
\* Authorization value.
SignedHeadersOf(auth) ==
    LET a == FindSub(auth, AuthSignedHeaders, 1)
        b == FindSub(auth, AuthSignature, a + Len(AuthSignedHeaders))
    IN  SubSeq(auth, a + Len(AuthSignedHeaders), b - 1)

\* A map built from the entries of m, inserted in the order of ks.
RECURSIVE BuildMap(_, _)
BuildMap(m, ks) ==
    IF ks = <<>> THEN EmptyMap
    ELSE Insert(BuildMap(m, SubSeq(ks, 1, Len(ks) - 1)), ks[Len(ks)],
                m[ks[Len(ks)]])

Reverse(ks) == [i \in 1..Len(ks) |-> ks[Len(ks) + 1 - i]]

\* C1: whatever the letter case of the caller's header names, the returned
\* header set holds exactly one header named host, whose value is the host
\* parsed from the URL, and exactly one named x-amz-date, whose value is the
\* timestamp of the call.
C1_HostAndDateOverwritten ==
    \A t \in Signed :
        LET c == calls[t]
            h == c.result.headers
        IN  /\ Cardinality(Named(h, HostName)) = 1
            /\ \A k \in Named(h, HostName) : h[k] = parse_url(c.req.url).host
            /\ Cardinality(Named(h, DateName)) = 1
            /\ \A k \in Named(h, DateName) : h[k] = format_timestamp(c.now)

\* C2: the canonical headers block has one line per header name, letter case
\* ignored, in strictly ascending byte order of the lowercase names, and is the
\* same whatever the order the headers were inserted in.
C2_CanonicalHeadersAscending ==
    \A t \in Signed :
        LET m     == calls[t].signed_headers
            names == canonical_signed_names(m)
        IN  /\ Len(canonical_header_lines(m))
                 = Cardinality({to_lowercase(k) : k \in DOMAIN m})
            /\ IsAscending(names)
            /\ canonical_headers(BuildMap(m, Keys(m)))
                 = canonical_headers(BuildMap(m, Reverse(Keys(m))))

\* C3: the name list after "SignedHeaders=" in the Authorization value is the
\* signed-headers line of the canonical request that was signed, and both are
\* the lowercase names, ascending, of the headers of the canonical block.
C3_SignedHeadersAgree ==
    \A t \in Signed :
        LET c     == calls[t]
            listed == SignedHeadersOf(c.result.headers[AuthName])
            names == canonical_signed_names(c.signed_headers)
        IN  /\ listed = canonical_signed_headers(c.signed_headers)
            /\ listed = Join(names, Semi)
            /\ IsAscending(names)
            /\ \A i \in 1..Len(names) : IsLowercase(names[i])

\* C4: the returned map has only lowercase names, always holds host,
\* x-amz-date, x-amz-content-sha256 (the hex SHA-256 of the payload) and
\* authorization, and holds x-amz-security-token, with the session token,
\* exactly when the credentials carry one.
C4_ReturnedHeaders ==
    \A t \in Signed :
        LET c == calls[t]
            h == c.result.headers
            token == signer.credentials.session_token
        IN  /\ \A k \in DOMAIN h : IsLowercase(k)
            /\ {HostName, DateName, ContentName, AuthName} \subseteq DOMAIN h
            /\ h[ContentName] = sha256_hex(c.req.payload)
            /\ (TokenName \in DOMAIN h) <=> token.some
            /\ token.some => h[TokenName] = token.value

\* C7: a call fails only when the clock it read was before the epoch; it
\* reads the clock once, an error carries no header, and with a clock at or
\* after the epoch every request, however malformed its URL, gets a header map.
C7_FailsOnlyOnClock ==
    \A t \in DOMAIN calls :
        LET c == calls[t] IN
        /\ c.pc # "idle" => c.reads = 1
        /\ c.pc = "done" =>
              /\ c.result.ok <=> c.now >= 0
              /\ ~c.result.ok => /\ c.result.headers = EmptyMap
                                 /\ c.result.error = "System time error"
              /\ c.result.ok => AuthName \in DOMAIN c.result.headers

\* C7 witness: a request with an empty URL was signed, and so was refused
\* nowhere but at the clock.
C7_Witness ==
    \E t \in Signed : calls[t].req.url = <<>> /\ calls[t].reads = 1

\* C10: in every interleaving, a call returns what the same call returns run
\* alone on the same clock reading and arguments, and no call changes the
\* signer.
C10_CallsIsolated ==
    /\ [](\A t \in DOMAIN calls :
            calls[t].pc = "done" =>
                calls[t].result =
                    sign_request(signer, calls[t].now, calls[t].req.method,
                        calls[t].req.url, calls[t].req.headers,
                        calls[t].req.payload))
    /\ [][signer' = signer]_vars

\* C10 witness: two calls with different arguments and clock readings have
\* both returned.
C10_Witness ==
    \E t, u \in Signed :
        /\ t # u
        /\ calls[t].req # calls[u].req
        /\ calls[t].now # calls[u].now

\* The date at the start of the credential scope of an Authorization value:
\* the text between the first and the second '/' after "Credential=".
CredentialDateOf(auth) ==
    LET a    == FindSub(auth, AuthCredential, 1) + Len(AuthCredential)
        rest == SubSeq(auth, a, Len(auth))
        i    == Find(rest, "/")
        tail == SubSeq(rest, i + 1, Len(rest))
    IN  SubSeq(tail, 1, Find(tail, "/") - 1)

\* text occurs in no value of the header map h.
AbsentFrom(h, text) == \A k \in DOMAIN h : FindSub(h[k], text, 1) = 0

\* C11: each call's x-amz-date is the formatted instant the clock showed when
\* the call read it, the credential scope of its Authorization value starts
\* with the first 8 characters of that x-amz-date and its signature is made
\* with the key derived for that date; a timestamp, date or signing key of an
\* earlier call that differs from this call's own is nowhere in its result.
C11_FreshPerCall ==
    /\ [](\A t \in Signed :
            LET c    == calls[t]
                h    == c.result.headers
                ts   == h[DateName]
                date == SubSeq(ts, 1, 8)
            IN  /\ ts = format_timestamp(c.now)
                /\ CredentialDateOf(h[AuthName]) = date
                /\ FindSub(h[AuthName], derive_signing_key(signer, date), 1) # 0
                /\ \A old \in ret :
                      /\ old # ts => AbsentFrom(h, old)
                      /\ SubSeq(old, 1, 8) # date
                            => /\ AbsentFrom(h, SubSeq(old, 1, 8))
                               /\ AbsentFrom(h, derive_signing_key(signer,
                                                    SubSeq(old, 1, 8))))
    /\ [][\A t \in DOMAIN calls :
            (calls[t].pc = "idle" /\ calls'[t].pc # "idle")
                => calls'[t].now = clock]_vars

\* C11 witness: a call has returned after an earlier call of another day.
C11_Witness ==
    \E t \in Signed :
        \E old \in ret :
            SubSeq(old, 1, 8) # SubSeq(calls[t].result.headers[DateName], 1, 8)

\* C14: each header named in the SignedHeaders list of the Authorization
\* value is in the returned map, its returned value, trimmed, is the value
\* written for it in the canonical headers block that was signed, and
\* authorization is not one of the names.
C14_SignedHeadersReturned ==
    \A t \in Signed :
        LET c     == calls[t]
            h     == c.result.headers
            names == Split(SignedHeadersOf(h[AuthName]), ";")
            lines == canonical_header_lines(c.signed_headers)
        IN  /\ Len(names) = Len(lines)
            /\ \A i \in 1..Len(names) :
                  /\ names[i] \in DOMAIN h
                  /\ lines[i] = canonical_header_line(names[i], h[names[i]])
            /\ \A i \in 1..Len(names) : to_lowercase(names[i]) # AuthName

---------------------------------------------------------------------------
(* Properties of the other functions                                       *)

\* C5: canonicalizing the canonical query string of any raw query again
\* gives the same string.
C5_QueryIdempotent == pc = "done" => canonical_query(ret) = ret

IsDigit(c) == c \in {"0", "1", "2", "3", "4", "5", "6", "7", "8", "9"}

\* The number written by a sequence of decimal digits.
RECURSIVE DigitsValue(_)
DigitsValue(ds) ==
    IF ds = <<>> THEN 0
    ELSE 10 * DigitsValue(SubSeq(ds, 1, Len(ds) - 1)) + (Ord(ds[Len(ds)]) - 48)

\* Days from 1970-01-01 to the proleptic-Gregorian date y-m-d, in closed form
\* (years counted from March, 400-year eras of 146097 days).
DaysFromCivil(y, m, d) ==
    LET yy  == IF m <= 2 THEN y - 1 ELSE y
        era == yy \div 400
        yoe == yy - era * 400
        mp  == IF m > 2 THEN m - 3 ELSE m + 9
        doy == (153 * mp + 2) \div 5 + d - 1
        doe == yoe * 365 + yoe \div 4 - yoe \div 100 + doy
    IN  era * 146097 + doe - 719468

\* text is YYYYMMDD'T'HHMMSS'Z' and names the instant days * 86400 + secs.
IsTimestampOf(text, days, secs) ==
    /\ Len(text) = 16
    /\ text[9] = "T"
    /\ text[16] = "Z"
    /\ \A i \in (1..8) \cup (10..15) : IsDigit(text[i])
    /\ LET y  == DigitsValue(SubSeq(text, 1, 4))
           m  == DigitsValue(SubSeq(text, 5, 6))
           d  == DigitsValue(SubSeq(text, 7, 8))
           hh == DigitsValue(SubSeq(text, 10, 11))
           mm == DigitsValue(SubSeq(text, 12, 13))
           ss == DigitsValue(SubSeq(text, 14, 15))
       IN  /\ m >= 1 /\ m <= 12 /\ d >= 1
           /\ DaysFromCivil(y, m, d) < DaysFromCivil(IF m = 12 THEN y + 1 ELSE y,
                                                     IF m = 12 THEN 1 ELSE m + 1, 1)
           /\ DaysFromCivil(y, m, d) = days
           /\ hh < 24 /\ mm < 60 /\ ss < 60
           /\ hh * 3600 + mm * 60 + ss = secs

TimestampDone == pc = "done"

\* The last day whose year has four digits.
LastFourDigitDay == DaysFromCivil(9999, 12, 31)

\* C6 as stated: for every unix_seconds, format_timestamp returns the
\* 16-character YYYYMMDD'T'HHMMSS'Z' of that instant.
C6_TimestampAnyInstant ==
    TimestampDone => IsTimestampOf(ret.text, arg.days, arg.secs)

\* C6 as amended: for every unix_seconds through 9999-12-31T23:59:59Z,
\* format_timestamp returns the 16-character YYYYMMDD'T'HHMMSS'Z' of that
\* instant (1705321845 gives 20240115T123045Z).
C6_TimestampThroughYear9999 ==
    TimestampDone =>
        /\ arg.days <= LastFourDigitDay
              => IsTimestampOf(ret.text, arg.days, arg.secs)
        /\ (arg.days = 19737 /\ arg.secs = 45045)
              => ret.text = <<"2", "0", "2", "4", "0", "1", "1", "5", "T",
                              "1", "2", "3", "0", "4", "5", "Z">>

\* C6 witness: the leap day 2000-02-29 has been formatted.
C6_Witness ==
    /\ TimestampDone
    /\ arg.days = 11016
    /\ SubSeq(ret.text, 1, 8) = <<"2", "0", "0", "0", "0", "2", "2", "9">>

EnvDone == pc = "done"

IsSet(name) == env[name].state # "unset"

IsUnicode(name) == env[name].state = "set"

\* C8 as stated: from_env fails, with no credentials, whenever the access key
\* or the secret key is unset, and succeeds whenever both are set, with no
\* session token when AWS_SESSION_TOKEN is unset and region us-east-1 when
\* AWS_REGION is unset.
C8_FromEnvWhenSet ==
    EnvDone =>
        /\ (~IsSet("AWS_ACCESS_KEY_ID") \/ ~IsSet("AWS_SECRET_ACCESS_KEY"))
              => (~loaded.ok /\ loaded.credentials = NoCredentials)
        /\ (IsSet("AWS_ACCESS_KEY_ID") /\ IsSet("AWS_SECRET_ACCESS_KEY"))
              => /\ loaded.ok
                 /\ ~IsSet("AWS_SESSION_TOKEN")
                       => ~loaded.credentials.session_token.some
                 /\ ~IsSet("AWS_REGION") => loaded.credentials.region = UsEast1

\* C8 as amended: from_env fails, with no credentials, whenever the access key
\* or the secret key is unset or not valid Unicode, and succeeds whenever both
\* are set to valid Unicode, whatever the other variables, with no session
\* token when AWS_SESSION_TOKEN is unset and region us-east-1 when AWS_REGION
\* is unset.
C8_FromEnvWhenUnicode ==
    EnvDone =>
        /\ (~IsUnicode("AWS_ACCESS_KEY_ID") \/ ~IsUnicode("AWS_SECRET_ACCESS_KEY"))
              => (~loaded.ok /\ loaded.credentials = NoCredentials)
        /\ (IsUnicode("AWS_ACCESS_KEY_ID") /\ IsUnicode("AWS_SECRET_ACCESS_KEY"))
              => /\ loaded.ok
                 /\ loaded.credentials.access_key_id
                       = env["AWS_ACCESS_KEY_ID"].value
                 /\ loaded.credentials.secret_access_key
                       = env["AWS_SECRET_ACCESS_KEY"].value
                 /\ ~IsSet("AWS_SESSION_TOKEN")
                       => ~loaded.credentials.session_token.some
                 /\ ~IsSet("AWS_REGION") => loaded.credentials.region = UsEast1

\* C8 witness: both keys set, the token and the region unset: loaded with no
\* session token and the default region.
C8_Witness ==
    /\ EnvDone
    /\ IsUnicode("AWS_ACCESS_KEY_ID") /\ IsUnicode("AWS_SECRET_ACCESS_KEY")
    /\ ~IsSet("AWS_SESSION_TOKEN") /\ ~IsSet("AWS_REGION")
    /\ loaded.ok
    /\ loaded.credentials.region = UsEast1

\* The secret texts a value holds.
RECURSIVE SecretsOf(_)
SecretsOf(v) ==
    IF v.type = "AwsCredentials"
    THEN {v.value.secret_access_key}
           \cup (IF v.value.session_token.some
                 THEN {v.value.session_token.value} ELSE {})
    ELSE IF v.value.variant \in {"FromEnv", "Key", "BearerToken"}
    THEN {v.value.content}
    ELSE IF v.value.variant = "MultiKeys"
    THEN {v.value.content[k] : k \in DOMAIN v.value.content}
    ELSE {v.value.content.url}
           \cup {v.value.content.headers[k] : k \in DOMAIN v.value.content.headers}

\* v and w differ at most in their secret content.
SameButSecrets(v, w) ==
    /\ v.type = w.type
    /\ v.type = "AwsCredentials"
          => /\ v.value.access_key_id = w.value.access_key_id
             /\ v.value.region = w.value.region
             /\ v.value.session_token.some = w.value.session_token.some
    /\ v.type = "AuthData" => v.value.variant = w.value.variant

\* C9: the Debug text of a value that holds secrets never contains a secret:
\* two values that differ only in their secrets format to the same text.
C9_DebugRedacted ==
    pc = "done" =>
        /\ \A x \in SecretsOf(arg) : FindSub(ret, x, 1) = 0
        /\ \A w \in DebugValues : SameButSecrets(arg, w) => fmt_debug(w) = ret

\* The number written by big-endian bytes.
RECURSIVE BigEndianValue(_)
BigEndianValue(bytes) ==
    IF bytes = <<>> THEN 0
    ELSE 256 * BigEndianValue(SubSeq(bytes, 1, Len(bytes) - 1)) + bytes[Len(bytes)]

\* The published digest of a message of the table.
Published(data) ==
    Sha256Vectors[CHOOSE i \in 1..Len(Sha256Vectors) :
                      Sha256Vectors[i].data = data].hex

\* padded is data, the byte 0x80, the fewest zero bytes that bring the length
\* to 56 mod 64, and the bit length of data as 8 big-endian bytes.
IsPaddingOf(padded, data) ==
    LET n == Len(data)
        m == Len(padded)
    IN  /\ m % 64 = 0
        /\ m >= n + 9
        /\ m < n + 9 + 64
        /\ SubSeq(padded, 1, n) = data
        /\ padded[n + 1] = 128
        /\ \A i \in (n + 2)..(m - 8) : padded[i] = 0
        /\ BigEndianValue(SubSeq(padded, m - 7, m)) = 8 * n

\* C12: sha256(data) is the standard SHA-256 digest of data: the message is
\* padded with 0x80, zero bytes to length 56 mod 64 and the 64-bit big-endian
\* bit length, every 64-byte chunk is compressed once, and the digest is the
\* published one; for the empty message it is e3b0c442...7852b855 and for
\* "hello" it is 2cf24dba...938b9824 (the first two rows of the table).
C12_Sha256Standard ==
    /\ pc \in {"chunk", "rounds", "done"} =>
          /\ IsPaddingOf(ret.padded, arg)
          /\ ret.chunk <= Len(ret.padded) \div 64 + 1
    /\ pc = "done" =>
          /\ ret.chunk = Len(ret.padded) \div 64 + 1
          /\ Len(ret.hash) = 32
          /\ to_hex(ret.hash) = Published(arg)
          /\ arg = <<>> => to_hex(ret.hash) = Sha256Vectors[1].hex
          /\ arg = <<104, 101, 108, 108, 111>>
                => to_hex(ret.hash) = Sha256Vectors[2].hex

\* C12 witness: "hello" has been hashed to 2cf24dba...938b9824.
C12_Witness ==
    /\ pc = "done"
    /\ arg = <<104, 101, 108, 108, 111>>
    /\ SubSeq(to_hex(ret.hash), 1, 8) = <<"2", "c", "f", "2", "4", "d", "b", "a">>
    /\ SubSeq(to_hex(ret.hash), 57, 64) = <<"9", "3", "8", "b", "9", "8", "2", "4">>

\* The bytes A-Z a-z 0-9 - _ . ~
UnreservedBytes ==
    {"A", "B", "C", "D", "E", "F", "G", "H", "I", "J", "K", "L", "M", "N", "O",
     "P", "Q", "R", "S", "T", "U", "V", "W", "X", "Y", "Z",
     "a", "b", "c", "d", "e", "f", "g", "h", "i", "j", "k", "l", "m", "n", "o",
     "p", "q", "r", "s", "t", "u", "v", "w", "x", "y", "z",
     "0", "1", "2", "3", "4", "5", "6", "7", "8", "9", "-", "_", ".", "~"}

UpperHexDigits == {"0", "1", "2", "3", "4", "5", "6", "7", "8", "9",
                   "A", "B", "C", "D", "E", "F"}

\* The value of an uppercase hex digit.
UpperHexValue(d) == IF IsDigit(d) THEN Ord(d) - 48 ELSE Ord(d) - 55

\* out is s with every byte either copied (an unreserved byte, or '/' when
\* encode_slash is false) or replaced by '%' and its two uppercase hex digits,
\* in the order of s.
RECURSIVE IsUriEncodingOf(_, _, _)
IsUriEncodingOf(out, s, encode_slash) ==
    IF s = <<>> THEN out = <<>>
    ELSE IF Head(s) \in UnreservedBytes \/ (Head(s) = "/" /\ ~encode_slash)
    THEN /\ Len(out) >= 1
         /\ out[1] = Head(s)
         /\ IsUriEncodingOf(Tail(out), Tail(s), encode_slash)
    ELSE /\ Len(out) >= 3
         /\ out[1] = "%"
         /\ out[2] \in UpperHexDigits
         /\ out[3] \in UpperHexDigits
         /\ 16 * UpperHexValue(out[2]) + UpperHexValue(out[3]) = Ord(Head(s))
         /\ IsUriEncodingOf(SubSeq(out, 4, Len(out)), Tail(s), encode_slash)

\* C13: for every string and both values of encode_slash, uri_encode copies
\* the bytes A-Z a-z 0-9 - _ . ~, copies '/' only when encode_slash is false,
\* and replaces every other byte by '%' and its two uppercase hex digits, byte
\* by byte in input order; "hello world" gives "hello%20world" and
\* "path/to/resource" gives itself or "path%2Fto%2Fresource".
C13_UriEncodeByteWise ==
    pc = "done" =>
        /\ IsUriEncodingOf(ret, arg.s, arg.encode_slash)
        /\ arg.s = HelloWorld
              => ret = <<"h", "e", "l", "l", "o", "%", "2", "0",
                         "w", "o", "r", "l", "d">>
        /\ (arg.s = PathToResource /\ ~arg.encode_slash) => ret = PathToResource
        /\ (arg.s = PathToResource /\ arg.encode_slash)
              => ret = <<"p", "a", "t", "h", "%", "2", "F", "t", "o", "%", "2", "F",
                         "r", "e", "s", "o", "u", "r", "c", "e">>

\* C13 witness: the two bytes of U+00E9 have been encoded, each as '%' and
\* two uppercase hex digits.
C13_Witness ==
    /\ pc = "done"
    /\ arg.encode_slash
    /\ arg.s = <<"0xC3", "0xA9">>
    /\ ret = <<"%", "C", "3", "%", "A", "9">>

=============================================================================
